---- MODULE Spec2Model ----
(***************************************************************************)
(* Model of the pipeline execution core (package pipeline):                *)
(*   - PipelineJob.Run: the one-time guard, the parent gating wait with    *)
(*     cancellation, Job.Start, the wait for the Job and the error slot;   *)
(*   - PipelineJob.doWork / shouldExecuteStep / executeStep: the step      *)
(*     runner of one job.                                                  *)
(* Spec is the graph of Pipeline Jobs with concurrent callers of Run.      *)
(* StepSpec is the work function of one job over a configured step list.   *)
(***************************************************************************)
EXTENDS Integers, Sequences, FiniteSets, TLC

\* ------------------------------------------------------------------------
\* Bounds
\* ------------------------------------------------------------------------
\* number of Run invocations issued in one behaviour
MaxCalls == 4
\* longest JobConfig.Steps list
MaxSteps == 3
\* most lines a step body writes to its output
MaxLines == 2

\* ------------------------------------------------------------------------
\* The graph: root -> {A, B} -> C, as built by the external graph builder
\* ------------------------------------------------------------------------
Nodes == {"root", "A", "B", "C"}

\* PipelineJob.Parents, in slice order
Parents(n) ==
    CASE n = "root" -> << >>
      [] n = "A"    -> <<"root">>
      [] n = "B"    -> <<"root">>
      [] n = "C"    -> <<"A", "B">>

\* JobConfig.Rerun != nil
Rerun(n) == n \in {"A"}

\* the execution contexts handed to Run; each has its own Done() signal
Ctxs == {"ambient", "fresh"}

\* error values
Nil == [kind |-> "nil"]
StartErr == [kind |-> "start"]
WorkErr == [kind |-> "work"]

VARIABLES
    startOnce,   \* per node: sync.Once, "fresh" | "running" | "done"
    err,         \* per node: PipelineJob.err
    runner,      \* per node: [pc, idx, ctx] of the call executing the guarded function
    waiting,     \* per node: number of Run calls blocked in startOnce.Do
    returns,     \* per node: the values Run calls have returned so far
    issued,      \* number of Run calls issued so far
    cancelled,   \* the contexts whose Done() signal has fired
    startCalls,  \* per node: number of Job.Start calls
    jobRunning,  \* per node: Job.Start succeeded and the work function is running
    jobDone,     \* per node: Job.Done() has fired
    jobErr,      \* per node: Job.Error()
    gateAborted, \* per node: the gating wait was ended by ctx.Done()
    early,       \* per context: the nodes that had a parent not yet complete
                 \* when the context was cancelled
    steps,       \* JobConfig.Steps of the job whose work function runs
    stepIdx,     \* doWork: 1-based loop position
    workPc,      \* doWork: "idle" | "step" | "exec" | "done"
    trace,       \* doWork: the shell commands executed so far, in order
    workRes,     \* doWork: the returned error
    cmdOut,      \* executeStep: what the step body writes, one chunk per Write
    cmdExit,     \* executeStep: the step body's exit status
    wIdx,        \* executeStep: the next chunk of cmdOut the body writes
    pipe,        \* io.Pipe: the chunk of a Write that no Read has taken yet
    pipeClosed,  \* io.Pipe: stdoutWriter.Close() was called
    scanBuf,     \* scanner goroutine: chunks read and not yet returned by Scan
    logged,      \* the texts passed to ctx.Log.Info, in order
    execPc,      \* executeStep: "idle" | "run" | "returned"
    execRes,     \* executeStep: the returned error
    scanPc       \* scanner goroutine: "idle" | "scan" | "exited"

logVars == <<cmdOut, cmdExit, wIdx, pipe, pipeClosed, scanBuf, logged, execPc,
             execRes, scanPc>>
stepVars == <<steps, stepIdx, workPc, trace, workRes, logVars>>
vars == <<startOnce, err, runner, waiting, returns, issued, cancelled, startCalls,
          jobRunning, jobDone, jobErr, gateAborted, early, steps, stepIdx, workPc,
          trace, workRes, logVars>>

NoRunner == [pc |-> "none", idx |-> 1, ctx |-> "ambient"]

GraphInit ==
    /\ startOnce = [n \in Nodes |-> "fresh"]
    /\ err = [n \in Nodes |-> Nil]
    /\ runner = [n \in Nodes |-> NoRunner]
    /\ waiting = [n \in Nodes |-> 0]
    /\ returns = [n \in Nodes |-> {}]
    /\ issued = 0
    /\ cancelled = {}
    /\ startCalls = [n \in Nodes |-> 0]
    /\ jobRunning = [n \in Nodes |-> FALSE]
    /\ jobDone = [n \in Nodes |-> FALSE]
    /\ jobErr = [n \in Nodes |-> Nil]
    /\ gateAborted = [n \in Nodes |-> FALSE]
    /\ early = [x \in Ctxs |-> {}]

StepIdle ==
    /\ steps = << >>
    /\ stepIdx = 1
    /\ workPc = "idle"
    /\ trace = << >>
    /\ workRes = Nil

LogIdle ==
    /\ cmdOut = << >>
    /\ cmdExit = 0
    /\ wIdx = 1
    /\ pipe = << >>
    /\ pipeClosed = FALSE
    /\ scanBuf = << >>
    /\ logged = << >>
    /\ execPc = "idle"
    /\ execRes = Nil
    /\ scanPc = "idle"

Init == GraphInit /\ StepIdle /\ LogIdle

\* ------------------------------------------------------------------------
\* sync.Once
\* ------------------------------------------------------------------------
\* Do runs f for the first caller only
OnceAdmitsAgain(n) == startOnce[n] # "running"
OnceAdmitsAfterError(n) ==
    startOnce[n] = "fresh" \/ (startOnce[n] = "done" /\ err[n] # Nil)
OnceAdmitsAfterAbort(n) ==
    startOnce[n] = "fresh" \/ (startOnce[n] = "done" /\ gateAborted[n])
OnceAdmits(n) == startOnce[n] = "fresh"

\* Do returns to a caller only after f has returned
OnceReturnsEarly(n) == startOnce[n] # "fresh"
OnceReturns(n) == startOnce[n] = "done"

\* ------------------------------------------------------------------------
\* PipelineJob.Run
\* ------------------------------------------------------------------------
\* the position of the guarded function once parents 1..idx-1 have been waited for
GatePcSkipsLast(n, idx) == IF idx >= Len(Parents(n)) THEN "start" ELSE "gate"
GatePc(n, idx) == IF idx > Len(Parents(n)) THEN "start" ELSE "gate"

\* the guarded function returns, Do returns, Run returns j.err
FinishOnce(n, e) ==
    /\ err' = [err EXCEPT ![n] = e]
    /\ startOnce' = [startOnce EXCEPT ![n] = "done"]
    /\ runner' = [runner EXCEPT ![n] = NoRunner]
    /\ returns' = [returns EXCEPT ![n] = @ \cup {e}]

\* a caller enters Run and startOnce.Do: the first one runs the guarded function
CallRunFirst(n, x) ==
    /\ issued < MaxCalls
    /\ OnceAdmits(n)
    /\ issued' = issued + 1
    /\ startOnce' = [startOnce EXCEPT ![n] = "running"]
    /\ runner' = [runner EXCEPT ![n] =
           [pc |-> GatePc(n, 1), idx |-> 1, ctx |-> x]]
    /\ UNCHANGED <<err, waiting, returns, cancelled, startCalls, jobRunning, jobDone,
                   jobErr, gateAborted, early, stepVars>>

\* a caller enters Run while another call is inside the guarded function or
\* after it: Do blocks until the guarded function has returned
CallRunAgain(n) ==
    /\ issued < MaxCalls
    /\ ~OnceAdmits(n)
    /\ issued' = issued + 1
    /\ waiting' = [waiting EXCEPT ![n] = @ + 1]
    /\ UNCHANGED <<startOnce, err, runner, returns, cancelled, startCalls, jobRunning,
                   jobDone, jobErr, gateAborted, early, stepVars>>

\* startOnce.Do returns to a blocked caller; return j.err
ReturnWaiting(n) ==
    /\ waiting[n] > 0
    /\ OnceReturns(n)
    /\ waiting' = [waiting EXCEPT ![n] = @ - 1]
    /\ returns' = [returns EXCEPT ![n] = @ \cup {err[n]}]
    /\ UNCHANGED <<startOnce, err, runner, issued, cancelled, startCalls, jobRunning,
                   jobDone, jobErr, gateAborted, early, stepVars>>

\* select, case <-ctx.Context.Done(): return
GateCancelErrCtx(n) == [kind |-> "canceled"]
GateCancelErr(n) == err[n]
GateCancel(n) ==
    /\ runner[n].pc = "gate"
    /\ runner[n].ctx \in cancelled
    /\ FinishOnce(n, GateCancelErr(n))
    /\ gateAborted' = [gateAborted EXCEPT ![n] = TRUE]
    /\ UNCHANGED <<waiting, issued, cancelled, startCalls, jobRunning, jobDone, jobErr,
                   early, stepVars>>

\* select, case <-parent.Job.Done():
ParentReadyAlways(n, idx) == TRUE
ParentReadyNoError(n, idx) ==
    jobDone[Parents(n)[idx]] /\ jobErr[Parents(n)[idx]] = Nil
ParentReady(n, idx) == jobDone[Parents(n)[idx]]
GateParent(n) ==
    LET idx == runner[n].idx IN
    /\ runner[n].pc = "gate"
    /\ ParentReady(n, idx)
    /\ runner' = [runner EXCEPT ![n] =
           [pc |-> GatePc(n, idx + 1), idx |-> idx + 1, ctx |-> @.ctx]]
    /\ UNCHANGED <<startOnce, err, waiting, returns, issued, cancelled, startCalls,
                   jobRunning, jobDone, jobErr, gateAborted, early, stepVars>>

JobStartFailsDropsErr(n, fires) ==
    /\ runner[n].pc = "start"
    /\ startCalls' = [startCalls EXCEPT ![n] = @ + 1]
    /\ jobErr' = [jobErr EXCEPT ![n] = StartErr]
    /\ jobDone' = [jobDone EXCEPT ![n] = @ \/ fires]
    /\ FinishOnce(n, err[n])
    /\ UNCHANGED <<waiting, issued, cancelled, jobRunning, gateAborted, early, stepVars>>

\* err := j.Job.Start(ctx, j.doWork) fails synchronously: j.err = err; return.
\* Whether such a Job ever fires its completion signal is up to the Job.
JobStartFails(n, fires) ==
    /\ runner[n].pc = "start"
    /\ startCalls' = [startCalls EXCEPT ![n] = @ + 1]
    /\ jobErr' = [jobErr EXCEPT ![n] = StartErr]
    /\ jobDone' = [jobDone EXCEPT ![n] = @ \/ fires]
    /\ FinishOnce(n, StartErr)
    /\ UNCHANGED <<waiting, issued, cancelled, jobRunning, gateAborted, early, stepVars>>

\* err := j.Job.Start(ctx, j.doWork) succeeds: the Job runs the work function
JobStartOk(n) ==
    /\ runner[n].pc = "start"
    /\ startCalls' = [startCalls EXCEPT ![n] = @ + 1]
    /\ jobRunning' = [jobRunning EXCEPT ![n] = TRUE]
    /\ runner' = [runner EXCEPT ![n].pc = "wait"]
    /\ UNCHANGED <<startOnce, err, waiting, returns, issued, cancelled, jobDone, jobErr,
                   gateAborted, early, stepVars>>

\* the Job (external): the work function returns e, the completion signal fires
JobFinish(n, e) ==
    /\ jobRunning[n]
    /\ jobRunning' = [jobRunning EXCEPT ![n] = FALSE]
    /\ jobDone' = [jobDone EXCEPT ![n] = TRUE]
    /\ jobErr' = [jobErr EXCEPT ![n] = e]
    /\ UNCHANGED <<startOnce, err, runner, waiting, returns, issued, cancelled,
                   startCalls, gateAborted, early, stepVars>>

\* <-j.Job.Done(); if j.Job.Error() != nil { j.err = j.Job.Error(); return };
\* the rerun stub returns as well
WaitJobAlwaysReady(n) == TRUE
WaitJobReadyOnSuccess(n) == jobDone[n] /\ jobErr[n] = Nil
WaitJobReady(n) == jobDone[n]
WaitJobRestarts(n) ==
    /\ runner[n].pc = "wait"
    /\ WaitJobReady(n)
    /\ IF Rerun(n) /\ jobErr[n] = Nil
       THEN /\ startCalls' = [startCalls EXCEPT ![n] = @ + 1]
            /\ jobRunning' = [jobRunning EXCEPT ![n] = TRUE]
            /\ UNCHANGED <<startOnce, err, runner, returns>>
       ELSE /\ FinishOnce(n, IF jobErr[n] # Nil THEN jobErr[n] ELSE err[n])
            /\ UNCHANGED <<startCalls, jobRunning>>
    /\ UNCHANGED <<waiting, issued, cancelled, jobDone, jobErr, gateAborted, early,
                   stepVars>>
WaitJob(n) ==
    /\ runner[n].pc = "wait"
    /\ WaitJobReady(n)
    /\ FinishOnce(n, IF jobErr[n] # Nil THEN jobErr[n]
                      ELSE IF Rerun(n) THEN err[n]   \* TODO: watch and restart
                      ELSE err[n])
    /\ UNCHANGED <<waiting, issued, cancelled, startCalls, jobRunning, jobDone, jobErr,
                   gateAborted, early, stepVars>>

\* every parent's completion signal has fired
AllParentsDone(n) == \A i \in 1..Len(Parents(n)) : jobDone[Parents(n)[i]]

\* the owner of a context cancels it
Cancel(x) ==
    /\ x \notin cancelled
    /\ cancelled' = cancelled \cup {x}
    /\ early' = [early EXCEPT ![x] = {n \in Nodes : ~AllParentsDone(n)}]
    /\ UNCHANGED <<startOnce, err, runner, waiting, returns, issued, startCalls,
                   jobRunning, jobDone, jobErr, gateAborted, stepVars>>

Next ==
    \/ \E n \in Nodes, x \in Ctxs : CallRunFirst(n, x)
    \/ \E n \in Nodes : CallRunAgain(n)
    \/ \E n \in Nodes : ReturnWaiting(n)
    \/ \E n \in Nodes : GateCancel(n)
    \/ \E n \in Nodes : GateParent(n)
    \/ \E n \in Nodes, fires \in BOOLEAN : JobStartFails(n, fires)
    \/ \E n \in Nodes : JobStartOk(n)
    \/ \E n \in Nodes, e \in {Nil, WorkErr} : JobFinish(n, e)
    \/ \E n \in Nodes : WaitJob(n)
    \/ \E x \in Ctxs : Cancel(x)

Spec == Init /\ [][Next]_vars

\* Run where every Job whose Start was called fires its completion signal
LiveNext ==
    \/ \E n \in Nodes, x \in Ctxs : CallRunFirst(n, x)
    \/ \E n \in Nodes : CallRunAgain(n)
    \/ \E n \in Nodes : ReturnWaiting(n)
    \/ \E n \in Nodes : GateCancel(n)
    \/ \E n \in Nodes : GateParent(n)
    \/ \E n \in Nodes : JobStartFails(n, TRUE)
    \/ \E n \in Nodes : JobStartOk(n)
    \/ \E n \in Nodes, e \in {Nil, WorkErr} : JobFinish(n, e)
    \/ \E n \in Nodes : WaitJob(n)
    \/ \E x \in Ctxs : Cancel(x)

\* the goroutine inside Run, the callers blocked in Do and the Jobs' work
\* functions are scheduled whenever they can step
LiveSpec ==
    /\ Init
    /\ [][LiveNext]_vars
    /\ \A n \in Nodes : WF_vars(GateParent(n))
    /\ \A n \in Nodes : WF_vars(JobStartOk(n) \/ JobStartFails(n, TRUE))
    /\ \A n \in Nodes : WF_vars(\E e \in {Nil, WorkErr} : JobFinish(n, e))
    /\ \A n \in Nodes : WF_vars(WaitJob(n))
    /\ \A n \in Nodes : WF_vars(ReturnWaiting(n))

\* ------------------------------------------------------------------------
\* Shell commands: what engine.ExecuteShellCommand yields for a command line
\* ------------------------------------------------------------------------
CmdTrue == "true"
CmdEchoTrue == "echo true"
CmdEchoFalse == "echo false"
CmdExit1 == "exit 1"
CmdFail == "echo out; echo err >&2; exit 2"
Texts == {CmdTrue, CmdEchoTrue, CmdEchoFalse, CmdExit1, CmdFail}

\* the exit status of the interpreted script
CmdStatus(t) ==
    CASE t = CmdExit1 -> 1
      [] t = CmdFail  -> 2
      [] OTHER        -> 0

\* what the script writes to its standard output, character by character
CmdStdout(t) ==
    CASE t = CmdEchoTrue  -> <<"t", "r", "u", "e", "\n">>
      [] t = CmdEchoFalse -> <<"f", "a", "l", "s", "e", "\n">>
      [] t = CmdFail      -> <<"o", "u", "t", "\n">>
      [] OTHER            -> << >>

\* what the script writes to its standard error
CmdStderr(t) ==
    CASE t = CmdFail -> <<"e", "r", "r", "\n">>
      [] OTHER       -> << >>

\* the error ExecuteShellCommand returns: nil on status 0, else an exit status error
ExitErr(status) == IF status = 0 THEN Nil ELSE [kind |-> "exit", status |-> status]

\* interp.IsExitStatus(err)
IsExitStatus(e) == e.kind = "exit"

\* ------------------------------------------------------------------------
\* strings.TrimSpace
\* ------------------------------------------------------------------------
IsSpace(ch) == ch \in {" ", "\n", "\t", "\r"}

RECURSIVE TrimLeft(_)
TrimLeft(s) ==
    IF s # << >> /\ IsSpace(Head(s)) THEN TrimLeft(Tail(s)) ELSE s

RECURSIVE TrimRight(_)
TrimRight(s) ==
    IF s # << >> /\ IsSpace(s[Len(s)]) THEN TrimRight(SubSeq(s, 1, Len(s) - 1)) ELSE s

TrimSpace(s) == TrimRight(TrimLeft(s))

FalseText == <<"f", "a", "l", "s", "e">>

\* ------------------------------------------------------------------------
\* PipelineJob.shouldExecuteStep
\* ------------------------------------------------------------------------
\* the command line handed to ExecuteShellCommand to evaluate the condition
ConditionText(step) == step.Run

\* fmt.Errorf("error: %v (stdout: %s, stderr: %s)", err, stdout, stderr)
CondErr(e, out, errOut) ==
    [kind |-> "cond", cause |-> e, stdout |-> out, stderr |-> errOut]

\* the (bool, error) pair returned for the result of the condition command
Decide(e, out, errOut) ==
    IF e # Nil
    THEN IF IsExitStatus(e) /\ e.status = 1
         THEN [execute |-> FALSE, err |-> Nil]
         ELSE [execute |-> FALSE, err |-> CondErr(e, out, errOut)]
    ELSE IF TrimSpace(out) = FalseText
         THEN [execute |-> FALSE, err |-> Nil]
         ELSE [execute |-> TRUE, err |-> Nil]

ShouldExecuteStep(step) ==
    LET t == ConditionText(step) IN
    Decide(ExitErr(CmdStatus(t)), CmdStdout(t), CmdStderr(t))

\* ------------------------------------------------------------------------
\* PipelineJob.doWork
\* ------------------------------------------------------------------------
StepConfigs == [If : Texts \cup {""}, Run : Texts]
StepLists == UNION {[1..n -> StepConfigs] : n \in 1..MaxSteps}

\* one ExecuteShellCommand call: the loop position, the command line, the
\* handler mode (live = true for step bodies, false for conditions)
Event(i, t, live) == [step |-> i, text |-> t, live |-> live]

\* errors.Wrapf(err, "error checking if at step %d", i), i the 0-based index
Wrapf(e, i) == [kind |-> "wrapf", index |-> i, cause |-> e]

\* what doWork returns for a failed step body: return err
BodyErr(e, i) == e

\* if err != nil { return ... }
IsFailureNever(e) == FALSE
IsFailure(e) == e # Nil

StepInit ==
    /\ GraphInit
    /\ LogIdle
    /\ steps \in StepLists
    /\ stepIdx = 1
    /\ workPc = "step"
    /\ trace = << >>
    /\ workRes = Nil

graphVars == <<startOnce, err, runner, waiting, returns, issued, cancelled,
               startCalls, jobRunning, jobDone, jobErr, gateAborted, early>>

\* if step.If != "" { execute, err = j.shouldExecuteStep(ctx, &step) ... }
EvalCondition ==
    /\ workPc = "step"
    /\ stepIdx <= Len(steps)
    /\ steps[stepIdx].If # ""
    /\ LET step == steps[stepIdx]
           d == ShouldExecuteStep(step) IN
       /\ trace' = Append(trace, Event(stepIdx, ConditionText(step), FALSE))
       /\ IF IsFailure(d.err)
          THEN /\ workRes' = Wrapf(d.err, stepIdx - 1)
               /\ workPc' = "done"
               /\ UNCHANGED stepIdx
          ELSE IF d.execute
          THEN /\ workPc' = "exec"
               /\ UNCHANGED <<workRes, stepIdx>>
          ELSE /\ stepIdx' = stepIdx + 1
               /\ UNCHANGED <<workRes, workPc>>
    /\ UNCHANGED <<steps, graphVars, logVars>>

\* if execute { err = j.executeStep(ctx, &step); if err != nil { return err } }
ExecuteStep ==
    /\ stepIdx <= Len(steps)
    /\ \/ workPc = "exec"
       \/ workPc = "step" /\ steps[stepIdx].If = ""
    /\ LET step == steps[stepIdx]
           e == ExitErr(CmdStatus(step.Run)) IN
       /\ trace' = Append(trace, Event(stepIdx, step.Run, TRUE))
       /\ IF IsFailure(e)
          THEN /\ workRes' = BodyErr(e, stepIdx - 1)
               /\ workPc' = "done"
               /\ UNCHANGED stepIdx
          ELSE /\ stepIdx' = stepIdx + 1
               /\ workPc' = "step"
               /\ UNCHANGED workRes
    /\ UNCHANGED <<steps, graphVars, logVars>>

\* the loop is over: return nil
DoWorkReturn ==
    /\ workPc = "step"
    /\ stepIdx > Len(steps)
    /\ workRes' = Nil
    /\ workPc' = "done"
    /\ UNCHANGED <<steps, stepIdx, trace, graphVars, logVars>>

StepNext == EvalCondition \/ ExecuteStep \/ DoWorkReturn

StepSpec == StepInit /\ [][StepNext]_vars

\* ------------------------------------------------------------------------
\* PipelineJob.executeStep: the output pipe and the line scanning goroutine
\* ------------------------------------------------------------------------
LogLines == {"hello", "world"}

\* one Write of the step body: a line, with or without its newline
Chunks == [text : LogLines, nl : BOOLEAN]

\* what a step body writes to stdoutWriter (its stdout and stderr alike): lines,
\* of which only the last may lack the newline
Outputs ==
    {o \in UNION {[1..n -> Chunks] : n \in 0..MaxLines} :
        \A i \in 1..Len(o) : i < Len(o) => o[i].nl}

ExitStatuses == {0, 1, 2}

\* the scanner holds a complete line
HasLine(buf) == buf # << >> /\ Head(buf).nl

\* defer stdoutWriter.Close(): runs on every return of executeStep
CloseOnSuccessOnly(e) == e = Nil
CloseOnReturn(e) == TRUE

\* executeStep has created the pipe, started the goroutine and the command
LogInit ==
    /\ GraphInit
    /\ StepIdle
    /\ cmdOut \in Outputs
    /\ cmdExit \in ExitStatuses
    /\ wIdx = 1
    /\ pipe = << >>
    /\ pipeClosed = FALSE
    /\ scanBuf = << >>
    /\ logged = << >>
    /\ execPc = "run"
    /\ execRes = Nil
    /\ scanPc = "scan"

workVars == <<steps, stepIdx, workPc, trace, workRes>>

\* the step body writes its next chunk: Write blocks until a Read has taken it
CmdWrite ==
    /\ execPc = "run"
    /\ wIdx <= Len(cmdOut)
    /\ pipe = << >>
    /\ pipe' = <<cmdOut[wIdx]>>
    /\ wIdx' = wIdx + 1
    /\ UNCHANGED <<cmdOut, cmdExit, pipeClosed, scanBuf, logged, execPc, execRes,
                   scanPc, graphVars, workVars>>

\* s.Scan() finds no complete line in its buffer and reads from the pipe
ScanRead ==
    /\ scanPc = "scan"
    /\ ~HasLine(scanBuf)
    /\ pipe # << >>
    /\ scanBuf' = scanBuf \o pipe
    /\ pipe' = << >>
    /\ UNCHANGED <<cmdOut, cmdExit, wIdx, pipeClosed, logged, execPc, execRes, scanPc,
                   graphVars, workVars>>

\* s.Scan() returns a line: ctx.Log.Info(s.Text())
ScanEmit ==
    /\ scanPc = "scan"
    /\ HasLine(scanBuf)
    /\ logged' = Append(logged, Head(scanBuf).text)
    /\ scanBuf' = Tail(scanBuf)
    /\ UNCHANGED <<cmdOut, cmdExit, wIdx, pipe, pipeClosed, execPc, execRes, scanPc,
                   graphVars, workVars>>

\* s.Scan() reads end-of-stream: a last line without newline is still
\* returned and logged, then Scan returns false and the goroutine ends
ScanEOF ==
    /\ scanPc = "scan"
    /\ ~HasLine(scanBuf)
    /\ pipe = << >>
    /\ pipeClosed
    /\ logged' = IF scanBuf = << >> THEN logged ELSE Append(logged, Head(scanBuf).text)
    /\ scanBuf' = << >>
    /\ scanPc' = "exited"
    /\ UNCHANGED <<cmdOut, cmdExit, wIdx, pipe, pipeClosed, execPc, execRes,
                   graphVars, workVars>>

\* ExecuteShellCommand returns once the body has written everything and
\* exited; return err, running the deferred Close
ExecReturn ==
    /\ execPc = "run"
    /\ wIdx > Len(cmdOut)
    /\ pipe = << >>
    /\ execRes' = ExitErr(cmdExit)
    /\ pipeClosed' = CloseOnReturn(ExitErr(cmdExit))
    /\ execPc' = "returned"
    /\ UNCHANGED <<cmdOut, cmdExit, wIdx, pipe, scanBuf, logged, scanPc,
                   graphVars, workVars>>

LogNext == CmdWrite \/ ScanRead \/ ScanEmit \/ ScanEOF \/ ExecReturn

LogSpec == LogInit /\ [][LogNext]_vars

\* the goroutine started by `go func()` is scheduled whenever it can step
LogFairSpec ==
    /\ LogInit
    /\ [][LogNext]_vars
    /\ WF_vars(ScanRead)
    /\ WF_vars(ScanEmit)
    /\ WF_vars(ScanEOF)

\* ------------------------------------------------------------------------
\* Properties of PipelineJob.Run (checked under Spec)
\* ------------------------------------------------------------------------
\* C1: however many callers invoke Run on a node, concurrently or repeatedly,
\* Job.Start (and with it the work function) is called at most once, and the
\* work function only ever runs for that one call.
C1_AtMostOnce ==
    \A n \in Nodes :
        /\ startCalls[n] <= 1
        /\ jobRunning[n] => startCalls[n] = 1

\* three concurrent calls on one node: one runs the Job, two are blocked in Do
C1_Witness ==
    \E n \in Nodes : startCalls[n] = 1 /\ jobRunning[n] /\ waiting[n] >= 2

C3_ParentGating ==
    \A n \in Nodes :
        (startCalls[n] > 0 \/ runner[n].pc \in {"start", "wait"}) => AllParentsDone(n)

\* C's Job runs its work function, after both A and B completed
C3_Witness ==
    /\ jobRunning["C"]
    /\ jobDone["A"]
    /\ jobDone["B"]

\* C4 as stated: a node whose context was cancelled while one of its parents
\* had not completed never has its Job started (looked at for parents whose
\* own Job.Start succeeded, so that their completion is the work's completion).
C4_Original ==
    \A n \in Nodes :
        (/\ runner[n].pc = "wait"
         /\ n \in early[runner[n].ctx]
         /\ \A i \in 1..Len(Parents(n)) : jobErr[Parents(n)[i]] # StartErr)
        => startCalls[n] = 0

\* C4 amended: when the gating wait for a parent is evaluated with the
\* cancellation signal fired and that parent not complete, the wait ends by
\* cancellation; and a node whose wait ended by cancellation never has its
\* Job started.
C4_CancelWins ==
    /\ [][\A n \in Nodes :
            (/\ runner[n].pc = "gate"
             /\ runner[n].ctx \in cancelled
             /\ ~jobDone[Parents(n)[runner[n].idx]]
             /\ runner'[n] # runner[n])
            => (gateAborted'[n] /\ startCalls'[n] = 0)]_vars
    /\ [](\A n \in Nodes : gateAborted[n] => (startCalls[n] = 0 /\ ~jobRunning[n]))

\* C's wait was ended by a cancellation that came after A completed and
\* before B did
C4_Witness ==
    /\ gateAborted["C"]
    /\ jobDone["A"]
    /\ ~jobDone["B"]
    /\ startCalls["C"] = 0

\* C5: when the gating wait is ended by cancellation, Run returns nil, the
\* error slot stays unset and Job.Start is not called.
C5_CancelIsNotAnError ==
    \A n \in Nodes :
        gateAborted[n] =>
            /\ err[n] = Nil
            /\ returns[n] = {Nil}
            /\ startCalls[n] = 0

\* a node's gating was aborted and a second, blocked call has returned too
C5_Witness ==
    \E n \in Nodes :
        /\ gateAborted[n]
        /\ issued >= 3
        /\ waiting[n] = 0
        /\ \A m \in Nodes \ {n, "root"} : startOnce[m] = "fresh"
        /\ returns[n] = {Nil}

\* C11: once a call of Run on a node has returned, the node is settled: every
\* later call returns the same value (the same error E), the guarded function
\* is not entered again, so the parents are not waited for again and
\* Job.Start is not called again.
C11_StickyError ==
    [][\A n \in Nodes :
          returns[n] # {} =>
             /\ returns'[n] = returns[n]
             /\ err'[n] = err[n]
             /\ runner'[n] = NoRunner
             /\ startCalls'[n] = startCalls[n]]_vars

\* a node has returned the work error to one call and a further call on it is
\* inside Run
C11_Witness ==
    \E n \in Nodes : returns[n] = {WorkErr} /\ waiting[n] >= 1

\* C12: a call that returned after Job.Start was called returned exactly the
\* Job's error: the Start error when Start failed (whether or not the Job's
\* completion signal ever fires), else the terminal error the Job reported,
\* nil when it reported none.
C12_ErrorCapture ==
    \A n \in Nodes :
        (returns[n] # {} /\ ~gateAborted[n]) =>
            /\ startCalls[n] = 1
            /\ jobErr[n] = StartErr => (returns[n] = {StartErr} /\ ~jobRunning[n])
            /\ jobErr[n] = WorkErr => (returns[n] = {WorkErr} /\ jobDone[n])
            /\ jobErr[n] = Nil => (returns[n] = {Nil} /\ jobDone[n])

\* Start failed, Run returned the Start error, the completion signal has not fired
C12_Witness ==
    \E n \in Nodes : returns[n] = {StartErr} /\ ~jobDone[n] /\ waiting[n] = 0

\* C15: a node whose configuration declares a rerun policy has its Job
\* started at most once and never running again after completion; its Run
\* returns once the Job completed, with the Job's result; and it returns what
\* its twin without the policy (B for A) returns for the same Job outcome.
C15_RerunInert ==
    /\ \A n \in Nodes :
          Rerun(n) =>
             /\ startCalls[n] <= 1
             /\ jobDone[n] => ~jobRunning[n]
             /\ (jobDone[n] /\ runner[n].pc # "wait") => returns[n] = {jobErr[n]}
    /\ (/\ Rerun("A") /\ ~Rerun("B")
        /\ returns["A"] # {} /\ returns["B"] # {}
        /\ gateAborted["A"] = gateAborted["B"]
        /\ jobErr["A"] = jobErr["B"])
       => returns["A"] = returns["B"]

\* the rerun node's Job completed without error and Run returned nil
C15_Witness ==
    /\ Rerun("A")
    /\ jobDone["A"]
    /\ jobErr["A"] = Nil
    /\ startCalls["A"] = 1
    /\ returns["A"] = {Nil}
    /\ returns["B"] = {Nil}

\* C16: while a node's Job is started and not complete no call of Run on it
\* has returned and the guarded function is still waiting for the Job; a call
\* that returned after a successful Start returned after the completion
\* signal.
C16_ReturnAfterCompletion ==
    \A n \in Nodes :
        /\ jobRunning[n] =>
              /\ returns[n] = {}
              /\ startOnce[n] = "running"
              /\ runner[n].pc = "wait"
        /\ (returns[n] # {} /\ startCalls[n] = 1 /\ jobErr[n] # StartErr) => jobDone[n]

\* the Job runs while the first call waits for it and another call is blocked
C16_Witness ==
    \E n \in Nodes : jobRunning[n] /\ runner[n].pc = "wait" /\ waiting[n] >= 1

\* C17: the gating wait for a parent can proceed as soon as that parent's
\* completion signal has fired, whatever error the parent ended with; a node
\* that finished without starting its Job was cancelled, never held back by a
\* parent's error; and a node whose own Job reported no error returns nil.
C17_ParentFailureDoesNotGate ==
    \A n \in Nodes :
        /\ (runner[n].pc = "gate" /\ jobDone[Parents(n)[runner[n].idx]])
              => ENABLED GateParent(n)
        /\ (startOnce[n] = "done" /\ startCalls[n] = 0) => gateAborted[n]
        /\ (returns[n] # {} /\ startCalls[n] = 1 /\ jobErr[n] = Nil) => returns[n] = {Nil}

\* C ran and returned nil although its parent A and the root ended with an error
C17_Witness ==
    /\ jobErr["root"] = WorkErr
    /\ jobErr["A"] = WorkErr
    /\ startCalls["C"] = 1
    /\ returns["C"] = {Nil}

\* C18: once a node's gating wait was ended by cancellation the guard stays
\* consumed: no later call enters the guarded function, every call returns
\* nil, Job.Start is never called and the Job's completion signal never fires.
C18_AbortConsumesGuard ==
    [][\A n \in Nodes :
          gateAborted[n] =>
             /\ gateAborted'[n]
             /\ startOnce'[n] = "done"
             /\ runner'[n] = NoRunner
             /\ startCalls'[n] = 0
             /\ ~jobRunning'[n]
             /\ ~jobDone'[n]
             /\ returns'[n] = {Nil}]_vars

\* A's gating was aborted; later its parent completed, a context that is not
\* cancelled exists, and a further call on A is inside Run
C18_Witness ==
    /\ gateAborted["A"]
    /\ jobDone["root"]
    /\ "fresh" \notin cancelled
    /\ waiting["A"] >= 1

\* Run has been invoked on n and on every ancestor of n
RECURSIVE InvokedWithAncestors(_)
InvokedWithAncestors(n) ==
    /\ startOnce[n] # "fresh"
    /\ \A i \in 1..Len(Parents(n)) : InvokedWithAncestors(Parents(n)[i])

\* every Run call on n has returned and n's Job was started exactly once
AllReturned(n) == startOnce[n] = "done" /\ waiting[n] = 0 /\ startCalls[n] = 1

\* C19: when every started Job fires its completion signal, the scheduling is
\* fair and cancellation never fires, a node on which Run was invoked, as on
\* all its ancestors, eventually has every Run call returned and its Job
\* started exactly once. Conversely a Run that returned without its gating
\* being aborted by cancellation had Run invoked on each of its parents, and
\* none of them had its gating aborted.
C19_Liveness ==
    /\ [](\A n \in Nodes : \A i \in 1..Len(Parents(n)) :
            (returns[n] # {} /\ ~gateAborted[n])
                => (startOnce[Parents(n)[i]] # "fresh" /\ ~gateAborted[Parents(n)[i]]))
    /\ ([](cancelled = {}))
          => \A n \in Nodes : InvokedWithAncestors(n) ~> AllReturned(n)

\* Run was invoked on all four nodes, all calls returned, each Job started
\* once, no cancellation; root's Job failed and its children ran all the same
C19_Witness ==
    /\ cancelled = {}
    /\ \A n \in Nodes : AllReturned(n) /\ returns[n] # {}
    /\ jobErr["root"] = WorkErr

\* ------------------------------------------------------------------------
\* Properties of the work function (checked under StepSpec)
\* ------------------------------------------------------------------------
\* step k has been dealt with: the loop has moved past it, or returned at it
Handled(k) ==
    /\ k \in 1..Len(steps)
    /\ \/ k < stepIdx
       \/ workPc = "done" /\ k = stepIdx

\* doWork returned an error at step k
FailedAt(k) == workPc = "done" /\ workRes # Nil /\ stepIdx = k

\* the positions of the trace where step k's body / condition command ran
BodyRuns(k) == {p \in DOMAIN trace : trace[p].step = k /\ trace[p].live}
CondRuns(k) == {p \in DOMAIN trace : trace[p].step = k /\ ~trace[p].live}

\* the innermost error of a wrapped error
RECURSIVE RootCause(_)
RootCause(e) == IF e.kind \in {"wrapf", "cond"} THEN RootCause(e.cause) ELSE e

\* the error a command of the trace produced, as doWork sees it
EventErr(ev) ==
    IF ev.live
    THEN ExitErr(CmdStatus(ev.text))
    ELSE Decide(ExitErr(CmdStatus(ev.text)), CmdStdout(ev.text), CmdStderr(ev.text)).err

\* the decision the condition table assigns to a condition command line
ClaimedDecision(t) ==
    IF CmdStatus(t) = 1 THEN "skip"
    ELSE IF CmdStatus(t) # 0 THEN "error"
    ELSE IF TrimSpace(CmdStdout(t)) = FalseText THEN "skip"
    ELSE "run"

\* all steps are unconditional
NoConditions == \A k \in 1..Len(steps) : steps[k].If = ""

\* the number of steps an unconditional list runs: up to the first failing one
RunLength ==
    LET failing == {k \in 1..Len(steps) : CmdStatus(steps[k].Run) # 0} IN
    IF failing = {} THEN Len(steps)
    ELSE CHOOSE k \in failing : \A m \in failing : k <= m

\* C6: the commands of a job run in configured step order (a step's
\* condition before its body, each at most once, never a step beyond the loop
\* position); a command that produced an error is the last one run, and its
\* error is the one doWork returns; without conditions the steps run are
\* exactly the configured ones up to and including the first failing one.
C6_OrderedStopAtFirstError ==
    /\ \A p, q \in DOMAIN trace :
          p < q =>
             /\ trace[p].step <= trace[q].step
             /\ trace[p].step = trace[q].step => (~trace[p].live /\ trace[q].live)
             /\ EventErr(trace[p]) = Nil
    /\ \A p \in DOMAIN trace : trace[p].step <= stepIdx /\ trace[p].step <= Len(steps)
    /\ (workPc = "done" /\ workRes # Nil) =>
          /\ trace # << >>
          /\ trace[Len(trace)].step = stepIdx
          /\ RootCause(workRes) = RootCause(EventErr(trace[Len(trace)]))
          /\ RootCause(workRes) # Nil
    /\ (workPc = "done" /\ workRes = Nil) =>
          (trace # << >> => EventErr(trace[Len(trace)]) = Nil)
    /\ (workPc = "done" /\ NoConditions) =>
          /\ trace = [k \in 1..RunLength |-> Event(k, steps[k].Run, TRUE)]
          /\ (workRes = Nil) = (CmdStatus(steps[RunLength].Run) = 0)

\* steps [A, B, C] without conditions, B fails: A and B ran, C did not
C6_Witness ==
    /\ workPc = "done"
    /\ Len(steps) = 3
    /\ NoConditions
    /\ CmdStatus(steps[1].Run) = 0
    /\ CmdStatus(steps[2].Run) # 0
    /\ Len(trace) = 2
    /\ workRes # Nil

\* C7: an error returned by doWork is the failing step's error wrapped with
\* the step's 0-based index, for step-body and condition failures alike.
C7_ErrorCarriesIndex ==
    (workPc = "done" /\ workRes # Nil) =>
        /\ workRes.kind = "wrapf"
        /\ workRes.index = stepIdx - 1

\* C8: for a step with a non-empty If, the outcome follows the condition
\* table applied to the If command's exit status and standard output: skip
\* without error, error carrying the captured output, or the body executed.
C8_ConditionTable ==
    \A k \in 1..Len(steps) :
        (Handled(k) /\ steps[k].If # "") =>
            LET d == ClaimedDecision(steps[k].If) IN
            /\ d = "skip" => (BodyRuns(k) = {} /\ ~FailedAt(k))
            /\ d = "error" =>
                  /\ BodyRuns(k) = {}
                  /\ FailedAt(k)
                  /\ workRes.kind = "wrapf"
                  /\ workRes.cause.kind = "cond"
                  /\ workRes.cause.stdout = CmdStdout(steps[k].If)
                  /\ workRes.cause.stderr = CmdStderr(steps[k].If)
            /\ d = "run" => BodyRuns(k) # {}

\* C9: the command line evaluated (in silent mode) as a step's condition is
\* the step's If text; the Run text is executed only as the step body, in
\* live mode, at most once per step.
C9_ConditionRunsIf ==
    /\ \A p \in DOMAIN trace :
          LET ev == trace[p] IN
          IF ev.live THEN ev.text = steps[ev.step].Run
                     ELSE ev.text = steps[ev.step].If
    /\ \A k \in 1..Len(steps) :
          /\ Cardinality(BodyRuns(k)) <= 1
          /\ Cardinality(CondRuns(k)) <= 1

\* the step's own outcome according to the condition table and its body
StepSucceedsOrSkips(k) ==
    IF steps[k].If = ""
    THEN CmdStatus(steps[k].Run) = 0
    ELSE \/ ClaimedDecision(steps[k].If) = "skip"
         \/ ClaimedDecision(steps[k].If) = "run" /\ CmdStatus(steps[k].Run) = 0

\* C10: a step whose condition says skip produces no error and does not stop
\* the job; doWork returns nil, having attempted every step, when every step
\* is skipped or succeeds; a step with an empty If is executed without any
\* condition evaluation.
C10_SkipIsNotFailure ==
    /\ \A k \in 1..Len(steps) :
          (Handled(k) /\ steps[k].If # "" /\ ClaimedDecision(steps[k].If) = "skip")
             => ~FailedAt(k)
    /\ (workPc = "done" /\ \A k \in 1..Len(steps) : StepSucceedsOrSkips(k))
          => (workRes = Nil /\ stepIdx = Len(steps) + 1)
    /\ \A k \in 1..Len(steps) :
          (Handled(k) /\ steps[k].If = "")
             => (Cardinality(BodyRuns(k)) = 1 /\ CondRuns(k) = {})

\* ------------------------------------------------------------------------
\* Properties of executeStep (checked under LogSpec and LogFairSpec)
\* ------------------------------------------------------------------------
\* the lines of the step body's output, in the order written
OutputLines == [i \in 1..Len(cmdOut) |-> cmdOut[i].text]

\* C13: when executeStep has returned (the step is reported complete), the
\* logger has received every line the step body wrote, once each, in the
\* order written.
C13_LoggedBeforeComplete ==
    execPc = "returned" => logged = OutputLines

\* C14: on every return of executeStep, failed or not, the write side of the
\* pipe is closed, and the scanner goroutine of a returned step eventually
\* reads end-of-stream and ends.
C14_ConsumerTerminates ==
    /\ [](execPc = "returned" => pipeClosed)
    /\ (execPc = "returned" ~> scanPc = "exited")

\* the step body wrote two lines and failed; executeStep returned its error
\* and the goroutine has ended, having logged both lines
C14_Witness ==
    /\ execPc = "returned"
    /\ execRes # Nil
    /\ Len(cmdOut) = 2
    /\ scanPc = "exited"
    /\ logged = OutputLines

====
